---- MODULE Spec2Model ----
(***************************************************************************)
(* Model of the table-cache chat extension (cmd/greeting/main.go): the     *)
(* HTTP handlers registered in main, the chat pipeline of chatHandler and  *)
(* the text helpers it calls.                                              *)
(*                                                                         *)
(* Go strings are modelled as sequences of one-character strings, so that  *)
(* strings.ToLower, ToUpper, TrimSpace, Fields and Contains are computed   *)
(* character by character as the library computes them (ASCII letters).    *)
(***************************************************************************)
EXTENDS Integers, Sequences, FiniteSets, TLC

\* ------------------------------------------------------------------ bounds
MaxWords == 3
MaxMsgs == 2
NumSlots == 2
StackLimit == 3

\* ------------------------------------------------------- strings (Go stdlib)
UpperCh == <<"A","B","C","D","E","F","G","H","I","J","K","L","M",
             "N","O","P","Q","R","S","T","U","V","W","X","Y","Z">>
LowerCh == <<"a","b","c","d","e","f","g","h","i","j","k","l","m",
             "n","o","p","q","r","s","t","u","v","w","x","y","z">>
Letters == 1..Len(UpperCh)

\* unicode.IsSpace on the characters the model uses
WhiteSpace == {" ", "\t", "\n"}

MinOf(S) == CHOOSE x \in S : \A y \in S : x <= y
MaxOf(S) == CHOOSE x \in S : \A y \in S : y <= x

ToLowerCh(c) ==
    IF \E i \in Letters : UpperCh[i] = c
    THEN LowerCh[CHOOSE i \in Letters : UpperCh[i] = c]
    ELSE c

ToUpperCh(c) ==
    IF \E i \in Letters : LowerCh[i] = c
    THEN UpperCh[CHOOSE i \in Letters : LowerCh[i] = c]
    ELSE c

\* strings.ToLower
ToLower(s) == [i \in 1..Len(s) |-> ToLowerCh(s[i])]

\* strings.ToUpper
ToUpper(s) == [i \in 1..Len(s) |-> ToUpperCh(s[i])]

\* strings.TrimSpace: drop leading and trailing white space
TrimSpace(s) ==
    LET keep == {i \in 1..Len(s) : s[i] \notin WhiteSpace}
    IN  IF keep = {} THEN <<>> ELSE SubSeq(s, MinOf(keep), MaxOf(keep))

\* strings.Contains
Contains(s, sub) ==
    \E i \in 0..(Len(s) - Len(sub)) : SubSeq(s, i + 1, i + Len(sub)) = sub

RECURSIVE FieldsFrom(_, _, _, _)
FieldsFrom(s, i, cur, acc) ==
    IF i > Len(s)
    THEN IF cur = <<>> THEN acc ELSE Append(acc, cur)
    ELSE IF s[i] \in WhiteSpace
         THEN FieldsFrom(s, i + 1, <<>>, IF cur = <<>> THEN acc ELSE Append(acc, cur))
         ELSE FieldsFrom(s, i + 1, Append(cur, s[i]), acc)

\* strings.Fields: the maximal runs of non-space characters, in order
Fields(s) == FieldsFrom(s, 1, <<>>, <<>>)

\* ------------------------------------------------------------ literal texts
W_hi == <<"h","i">>
W_hello == <<"h","e","l","l","o">>
W_hey == <<"h","e","y">>
W_greeting == <<"g","r","e","e","t","i","n","g">>
W_greet == <<"g","r","e","e","t">>
W_of == <<"o","f">>
P_table_cache == <<"t","a","b","l","e"," ","c","a","c","h","e">>
P_cache_of == <<"c","a","c","h","e"," ","o","f">>
P_cache_for == <<"c","a","c","h","e"," ","f","o","r">>
TBCD == <<"T","B","C","D">>
USERS == <<"U","S","E","R","S">>
ORDERS == <<"O","R","D","E","R","S">>
UNKNOWN == <<"U","N","K","N","O","W","N">>

greetingWords == <<W_hi, W_hello, W_hey, W_greeting, W_greet>>

\* ---------------------------------------------------------- pure functions
\* isGreetingMessage: lower-cased, trimmed message contains a greeting word
isGreetingMessage(message) ==
    LET m == ToLower(TrimSpace(message))
    IN  \E k \in 1..Len(greetingWords) : Contains(m, greetingWords[k])

\* isTableCacheQuery: lower-cased message contains one of the cache phrases
isTableCacheQuery(message) ==
    LET m == ToLower(message)
    IN  \/ Contains(m, P_table_cache)
        \/ Contains(m, P_cache_of)
        \/ Contains(m, P_cache_for)

ExtractLastOf(message) ==
    LET m     == ToLower(message)
        words == Fields(m)
        ofIdx == {i \in 1..Len(words) : words[i] = W_of /\ i < Len(words)}
    IN  IF ofIdx # {} THEN ToUpper(words[MaxOf(ofIdx) + 1]) ELSE UNKNOWN

\* extractTableName: the token after the first "of"; else the first token of
\* the (already lower-cased) message that is longer than 2 and equal to its
\* own upper-casing; else "UNKNOWN"
extractTableName(message) ==
    LET m     == ToLower(message)
        words == Fields(m)
        ofIdx == {i \in 1..Len(words) : words[i] = W_of /\ i < Len(words)}
        originalWords == Fields(TrimSpace(m))
        upIdx == {i \in 1..Len(originalWords) :
                     /\ Len(originalWords[i]) > 2
                     /\ ToUpper(originalWords[i]) = originalWords[i]}
    IN  IF ofIdx # {} THEN ToUpper(words[MinOf(ofIdx) + 1])
        ELSE IF upIdx # {} THEN originalWords[MinOf(upIdx)]
        ELSE UNKNOWN

\* The response texts.  A text is a record: its fixed opening line, the table
\* name formatted into it (empty when the text has none) and its bullet lines.
Text(head, name, lines) == [head |-> head, name |-> name, lines |-> lines]

getGreetingMessage ==
    Text("Hello! I'm your Table Cache Extension!", <<>>,
         <<"Just say hi or hello for this greeting",
           "Ask what's the table cache of [TABLE_NAME] to get cache details",
           "Available Tables: TBCD, USERS, ORDERS">>)

getHelpMessage ==
    Text("I'm not sure what you're asking for.", <<>>,
         <<"Say hi or hello for a greeting",
           "Ask what's the table cache of [TABLE_NAME] to get cache information",
           "Available Tables: TBCD, USERS, ORDERS">>)

GenerateNoOrders(tableName) ==
    IF tableName = TBCD
    THEN Text("Table Cache Information for", TBCD,
              <<"- MENUCACHE", "- APICACHE", "- TRANSCACHE">>)
    ELSE IF tableName = USERS
    THEN Text("Table Cache Information for", USERS,
              <<"- USERCACHE", "- REGISTRYCACHE">>)
    ELSE Text("Table Cache Information for", tableName,
              <<"- Status: Table not found in cache system",
                "- Suggestion: Please check if the table name is correct",
                "- Available cached tables: TBCD, USERS, ORDERS",
                "- Contact admin if you need to add this table to cache monitoring">>)

\* generateTableCacheResponse: the switch over the table name
generateTableCacheResponse(tableName) ==
    IF tableName = TBCD
    THEN Text("Table Cache Information for", TBCD,
              <<"- MENUCACHE", "- APICACHE", "- TRANSCACHE">>)
    ELSE IF tableName = USERS
    THEN Text("Table Cache Information for", USERS,
              <<"- USERCACHE", "- REGISTRYCACHE">>)
    ELSE IF tableName = ORDERS
    THEN Text("Table Cache Information for", ORDERS,
              <<"- ORDERCACHE">>)
    ELSE Text("Table Cache Information for", tableName,
              <<"- Status: Table not found in cache system",
                "- Suggestion: Please check if the table name is correct",
                "- Available cached tables: TBCD, USERS, ORDERS",
                "- Contact admin if you need to add this table to cache monitoring">>)

ClassifyCacheFirst(message) ==
    IF isTableCacheQuery(message) THEN "CacheQuery"
    ELSE IF isGreetingMessage(message) THEN "Greeting"
    ELSE "Unknown"

\* The branch chatHandler takes for a message (its if / else if / else)
Classify(message) ==
    IF isGreetingMessage(message) THEN "Greeting"
    ELSE IF isTableCacheQuery(message) THEN "CacheQuery"
    ELSE "Unknown"

\* The response content chatHandler composes for a message
ResponseContent(message) ==
    LET branch == Classify(message)
    IN  IF branch = "Greeting" THEN getGreetingMessage
        ELSE IF branch = "CacheQuery"
             THEN generateTableCacheResponse(extractTableName(message))
             ELSE getHelpMessage

\* ------------------------------------------------------ HTTP requests
Paths == {"/", "/greeting", "/v1/chat/completions", "/health", "/cors-proxy", "/other"}
Methods == {"GET", "POST", "OPTIONS", "PUT"}
Roles == {"system", "user", "assistant"}

\* A request body as the JSON decoder sees it: the kind of its first JSON
\* value, whether bytes follow that value, and the messages of a request
\* object.
\*   empty      no bytes at all
\*   malformed  not the start of any JSON value
\*   wrongtype  a JSON value whose types do not fit CopilotRequest
\*   null       the JSON value null
\*   object     a JSON object that fits CopilotRequest
Body(first, trailing, messages) ==
    [first |-> first, trailing |-> trailing, messages |-> messages]

NoBody == Body("empty", FALSE, <<>>)

Message(role, content) == [role |-> role, content |-> content]

Request(path, method, body) == [path |-> path, method |-> method, body |-> body]

NoRequest == Request("", "", NoBody)

\* json.NewDecoder(r.Body).Decode(&req): decodes the first JSON value of the
\* body and never looks at what follows it; null leaves req at its zero value
Decode(body) ==
    IF body.first = "object" THEN [ok |-> TRUE, messages |-> body.messages]
    ELSE IF body.first = "null" THEN [ok |-> TRUE, messages |-> <<>>]
    ELSE [ok |-> FALSE, messages |-> <<>>]

\* ------------------------------------------------------ HTTP responses
Chunk(kind, text, choices, tail) ==
    [kind |-> kind, text |-> text, choices |-> choices, tail |-> tail]

Response(status, headers, body) ==
    [status |-> status, headers |-> headers, body |-> body]

\* Nothing written yet: no status line, no header, no body
EmptyResponse == Response(0, {}, <<>>)

\* w.Header().Set(k, v)
SetHeader(h, k, v) == {p \in h : p[1] # k} \cup {<<k, v>>}

\* The first Write (or the handler's return) sends status 200 when
\* WriteHeader was not called
ImplicitOK(status) == IF status = 0 THEN 200 ELSE status

\* http.Error(w, msg, code)
HttpError(r, msg, code) ==
    Response(IF r.status = 0 THEN code ELSE r.status,
             SetHeader(SetHeader(r.headers, "Content-Type", "text/plain; charset=utf-8"),
                       "X-Content-Type-Options", "nosniff"),
             Append(r.body, Chunk("text", msg, <<>>, "\n")))

\* json.NewEncoder(w).Encode(v) after Content-Type: application/json
WriteJSON(r, json) ==
    Response(ImplicitOK(r.status),
             SetHeader(r.headers, "Content-Type", "application/json"),
             Append(r.body, Chunk("json", json, <<>>, "\n")))

GreetingJSON ==
    "{\"message\":\"Hello! I'm your table cache extension. Ask me about table cache with @myextension what's the table cache of [TABLE_NAME]\"}"

HealthJSON == "{\"service\":\"copilot-extension-api\",\"status\":\"healthy\"}"

Choice(content) ==
    [index |-> 0,
     delta |-> [role |-> "assistant", content |-> content],
     finish_reason |-> "stop"]

SSEFramesWithDone(content) ==
    << Chunk("sse", "data: ", << Choice(content) >>, "\n\n"),
       Chunk("sse", "data: [DONE]", <<>>, "\n\n") >>

\* The frames chatHandler writes: one "data: <json>\n\n" with one choice
SSEFrames(content) ==
    << Chunk("sse", "data: ", << Choice(content) >>, "\n\n") >>

\* The SSE headers and the frame chatHandler writes for a composed text
WriteSSE(r, content) ==
    Response(ImplicitOK(r.status),
             SetHeader(SetHeader(SetHeader(SetHeader(r.headers,
                 "Content-Type", "text/event-stream"),
                 "Cache-Control", "no-cache"),
                 "Connection", "keep-alive"),
                 "Access-Control-Allow-Origin", "*"),
             r.body \o SSEFrames(content))

\* The three headers the /cors-proxy handler sets
CorsHeaders(h) ==
    SetHeader(SetHeader(SetHeader(h,
        "Access-Control-Allow-Origin", "*"),
        "Access-Control-Allow-Methods", "GET, POST, OPTIONS"),
        "Access-Control-Allow-Headers", "Content-Type, Authorization")

\* The route table main registers on http.DefaultServeMux: exact patterns,
\* and "/" for every other path
HandlerOf(path) ==
    IF path = "/greeting" THEN "greeting"
    ELSE IF path = "/v1/chat/completions" THEN "chat"
    ELSE IF path = "/health" THEN "health"
    ELSE IF path = "/cors-proxy" THEN "cors"
    ELSE "greeting"

RECURSIVE ScanFirst(_, _, _)
ScanFirst(msgs, i, userMessage) ==
    IF i > Len(msgs) THEN userMessage
    ELSE IF msgs[i].role = "user" THEN msgs[i].content
    ELSE ScanFirst(msgs, i + 1, userMessage)

RECURSIVE ScanMessages(_, _, _)
\* chatHandler's loop over req.Messages: every user-role message overwrites
\* userMessage
ScanMessages(msgs, i, userMessage) ==
    IF i > Len(msgs) THEN userMessage
    ELSE ScanMessages(msgs, i + 1,
                      IF msgs[i].role = "user" THEN msgs[i].content ELSE userMessage)

\* var userMessage string, then the loop
LastUserMessage(msgs) == ScanMessages(msgs, 1, <<>>)

SetShared(f, s, v) == [t \in DOMAIN f |-> v]

\* A handler invocation's local variable: each invocation has its own
SetLocal(f, s, v) == [f EXCEPT ![s] = v]

\* ------------------------------------------------------------ input domains
V_Hello == <<"H","e","l","l","o">>
V_this == <<"t","h","i","s">>
V_Of == <<"O","f">>
V_table == <<"t","a","b","l","e">>
V_cache == <<"c","a","c","h","e">>
V_for == <<"f","o","r">>
V_users == <<"u","s","e","r","s">>
V_Orders == <<"O","r","d","e","r","s">>
V_123 == <<"1","2","3">>
V_AB == <<"A","B">>

Vocab == {V_Hello, V_this, V_Of, V_table, V_cache, V_for, TBCD, V_users, V_Orders,
          V_123, V_AB}

RECURSIVE Join(_, _)
Join(ws, sep) ==
    IF ws = <<>> THEN <<>>
    ELSE IF Len(ws) = 1 THEN ws[1]
    ELSE ws[1] \o sep \o Join(Tail(ws), sep)

\* An utterance: words joined by a separator, padded on both sides
Utterance(ws, sep, pad) == pad \o Join(ws, sep) \o pad

Separators == {<<" ">>, <<" ", "\t">>}
Paddings == {<<>>, <<" ">>}

WordSeqs == UNION {[1..k -> Vocab] : k \in 0..MaxWords}

Utterances ==
    {Utterance(ws, sep, pad) : ws \in WordSeqs, sep \in Separators, pad \in Paddings}

Say(ws) == Utterance(ws, <<" ">>, <<>>)

\* The contents chat messages carry in the server specifications
ChatContents ==
    {Say(<<>>), Say(<<V_Hello>>), Say(<<V_table, V_for>>), Say(<<V_table, V_cache>>),
     Say(<<V_cache, V_Of, TBCD>>), Say(<<V_cache, V_Of, V_users>>),
     Say(<<V_cache, V_Of, V_Orders>>), Say(<<V_cache, V_Of, V_123>>)}

ChatMessages == {Message(r, c) : r \in Roles, c \in ChatContents}

MessageLists == UNION {[1..k -> ChatMessages] : k \in 0..MaxMsgs}

ChatBodies ==
    {Body(f, FALSE, <<>>) : f \in {"empty", "malformed", "wrongtype"}}
    \cup {Body("null", t, <<>>) : t \in BOOLEAN}
    \cup {Body("object", t, m) : t \in BOOLEAN, m \in MessageLists}

\* One client at a time: every path and method, every chat body
SingleRequests ==
    {Request(p, m, NoBody) : p \in Paths, m \in Methods}
    \cup {Request("/v1/chat/completions", "POST", b) : b \in ChatBodies}

\* Concurrent clients: a few requests of every kind
ConcurrentRequests ==
    {Request("/v1/chat/completions", "POST",
             Body("object", FALSE, << Message("user", Say(<<V_Hello>>)) >>)),
     Request("/v1/chat/completions", "POST",
             Body("object", FALSE, << Message("user", Say(<<V_cache, V_Of, TBCD>>)),
                                      Message("assistant", Say(<<V_Hello>>)) >>)),
     Request("/v1/chat/completions", "POST", Body("malformed", FALSE, <<>>)),
     Request("/v1/chat/completions", "GET", NoBody),
     Request("/greeting", "GET", NoBody),
     Request("/health", "POST", NoBody),
     Request("/cors-proxy", "OPTIONS", NoBody),
     Request("/cors-proxy", "GET", NoBody)}

Slots == 1..NumSlots

NoText == Text("", <<>>, <<>>)

\* -------------------------------------------------------------------- state
VARIABLES
    load,             \* "single" or "concurrent" clients ("none": no server run)
    req,              \* slot -> the request a handler goroutine is serving
    pc,               \* slot -> where that goroutine is
    decoded,          \* slot -> chatHandler's req.Messages
    userMessage,      \* slot -> chatHandler's userMessage
    responseContent,  \* slot -> chatHandler's responseContent
    resp,             \* slot -> what has been written to the ResponseWriter
    corsDepth,        \* slot -> nested activations of the /cors-proxy handler
    crashed,          \* the process died of a goroutine stack overflow
    utterance,        \* input of the text functions
    fpc,              \* which text function has been applied
    intent,           \* result of Classify
    tableName,        \* result of extractTableName
    text              \* result of generateTableCacheResponse

serverVars == <<load, req, pc, decoded, userMessage, responseContent, resp,
                corsDepth, crashed>>
fnVars == <<utterance, fpc, intent, tableName, text>>
vars == <<load, req, pc, decoded, userMessage, responseContent, resp,
          corsDepth, crashed, utterance, fpc, intent, tableName, text>>

ActiveSlots == IF load = "single" THEN {1} ELSE IF load = "concurrent" THEN Slots ELSE {}

Pool == IF load = "single" THEN SingleRequests ELSE ConcurrentRequests

ServerIdle ==
    /\ req = [s \in Slots |-> NoRequest]
    /\ pc = [s \in Slots |-> "idle"]
    /\ decoded = [s \in Slots |-> <<>>]
    /\ userMessage = [s \in Slots |-> <<>>]
    /\ responseContent = [s \in Slots |-> NoText]
    /\ resp = [s \in Slots |-> EmptyResponse]
    /\ corsDepth = [s \in Slots |-> 0]
    /\ crashed = FALSE

FnIdle ==
    /\ utterance = <<>>
    /\ fpc = "off"
    /\ intent = ""
    /\ tableName = <<>>
    /\ text = NoText

\* ------------------------------------------------------------ server actions
\* http.ListenAndServe accepts a request and starts a goroutine for it
Receive(s) ==
    /\ ~crashed
    /\ s \in ActiveSlots
    /\ pc[s] = "idle"
    /\ \E r \in Pool : req' = [req EXCEPT ![s] = r]
    /\ pc' = [pc EXCEPT ![s] = "mux"]
    /\ UNCHANGED <<load, decoded, userMessage, responseContent, resp, corsDepth, crashed>>
    /\ UNCHANGED fnVars

\* DefaultServeMux routes the request to the handler of its path
ServeMux(s) ==
    /\ ~crashed
    /\ pc[s] = "mux"
    /\ pc' = [pc EXCEPT ![s] = HandlerOf(req[s].path)]
    /\ UNCHANGED <<load, req, decoded, userMessage, responseContent, resp, corsDepth, crashed>>
    /\ UNCHANGED fnVars

greetingHandler(s) ==
    /\ ~crashed
    /\ pc[s] = "greeting"
    /\ resp' = [resp EXCEPT ![s] =
                  IF req[s].method # "GET"
                  THEN HttpError(@, "Method not allowed", 405)
                  ELSE WriteJSON(@, GreetingJSON)]
    /\ pc' = [pc EXCEPT ![s] = "done"]
    /\ UNCHANGED <<load, req, decoded, userMessage, responseContent, corsDepth, crashed>>
    /\ UNCHANGED fnVars

healthHandler(s) ==
    /\ ~crashed
    /\ pc[s] = "health"
    /\ resp' = [resp EXCEPT ![s] = WriteJSON(@, HealthJSON)]
    /\ pc' = [pc EXCEPT ![s] = "done"]
    /\ UNCHANGED <<load, req, decoded, userMessage, responseContent, corsDepth, crashed>>
    /\ UNCHANGED fnVars

\* The /cors-proxy handler: sets its headers, returns on OPTIONS, and else
\* calls http.DefaultServeMux.ServeHTTP(w, r) with the same request, which
\* routes by the same path
corsProxy(s) ==
    /\ ~crashed
    /\ pc[s] = "cors"
    /\ corsDepth[s] < StackLimit
    /\ corsDepth' = [corsDepth EXCEPT ![s] = @ + 1]
    /\ IF req[s].method = "OPTIONS"
       THEN /\ resp' = [resp EXCEPT ![s] =
                          Response(ImplicitOK(@.status), CorsHeaders(@.headers), @.body)]
            /\ pc' = [pc EXCEPT ![s] = "done"]
       ELSE /\ resp' = [resp EXCEPT ![s] =
                          Response(@.status, CorsHeaders(@.headers), @.body)]
            /\ pc' = [pc EXCEPT ![s] = HandlerOf(req[s].path)]
    /\ UNCHANGED <<load, req, decoded, userMessage, responseContent, crashed>>
    /\ UNCHANGED fnVars

\* The goroutine's stack is exhausted by the nested activations: the Go
\* runtime ends the process (fatal error: stack overflow)
StackOverflow(s) ==
    /\ ~crashed
    /\ pc[s] = "cors"
    /\ corsDepth[s] >= StackLimit
    /\ crashed' = TRUE
    /\ UNCHANGED <<load, req, pc, decoded, userMessage, responseContent, resp, corsDepth>>
    /\ UNCHANGED fnVars

\* chatHandler up to the decoded request: method check, then JSON decoding
chatDecode(s) ==
    /\ ~crashed
    /\ pc[s] = "chat"
    /\ IF req[s].method # "POST"
       THEN /\ resp' = [resp EXCEPT ![s] = HttpError(@, "Method not allowed", 405)]
            /\ pc' = [pc EXCEPT ![s] = "done"]
            /\ UNCHANGED decoded
       ELSE IF ~Decode(req[s].body).ok
       THEN /\ resp' = [resp EXCEPT ![s] = HttpError(@, "Invalid JSON", 400)]
            /\ pc' = [pc EXCEPT ![s] = "done"]
            /\ UNCHANGED decoded
       ELSE /\ decoded' = SetLocal(decoded, s, Decode(req[s].body).messages)
            /\ pc' = [pc EXCEPT ![s] = "scan"]
            /\ UNCHANGED resp
    /\ UNCHANGED <<load, req, userMessage, responseContent, corsDepth, crashed>>
    /\ UNCHANGED fnVars

\* chatHandler: the last user message (log.Printf then writes it to the
\* process log, which no handler reads)
chatScan(s) ==
    /\ ~crashed
    /\ pc[s] = "scan"
    /\ userMessage' = SetLocal(userMessage, s, LastUserMessage(decoded[s]))
    /\ pc' = [pc EXCEPT ![s] = "respond"]
    /\ UNCHANGED <<load, req, decoded, responseContent, resp, corsDepth, crashed>>
    /\ UNCHANGED fnVars

\* chatHandler: the response content for the message
chatRespond(s) ==
    /\ ~crashed
    /\ pc[s] = "respond"
    /\ responseContent' = SetLocal(responseContent, s, ResponseContent(userMessage[s]))
    /\ pc' = [pc EXCEPT ![s] = "write"]
    /\ UNCHANGED <<load, req, decoded, userMessage, resp, corsDepth, crashed>>
    /\ UNCHANGED fnVars

\* chatHandler: the SSE headers and the frame
chatWrite(s) ==
    /\ ~crashed
    /\ pc[s] = "write"
    /\ resp' = [resp EXCEPT ![s] = WriteSSE(@, responseContent[s])]
    /\ pc' = [pc EXCEPT ![s] = "done"]
    /\ UNCHANGED <<load, req, decoded, userMessage, responseContent, corsDepth, crashed>>
    /\ UNCHANGED fnVars

\* The response is sent and the goroutine ends; the slot serves a new request
Complete(s) ==
    /\ ~crashed
    /\ pc[s] = "done"
    /\ req' = [req EXCEPT ![s] = NoRequest]
    /\ pc' = [pc EXCEPT ![s] = "idle"]
    /\ decoded' = [decoded EXCEPT ![s] = <<>>]
    /\ userMessage' = [userMessage EXCEPT ![s] = <<>>]
    /\ responseContent' = [responseContent EXCEPT ![s] = NoText]
    /\ resp' = [resp EXCEPT ![s] = EmptyResponse]
    /\ corsDepth' = [corsDepth EXCEPT ![s] = 0]
    /\ UNCHANGED <<load, crashed>>
    /\ UNCHANGED fnVars

Init ==
    /\ load = "single"
    /\ ServerIdle
    /\ FnIdle

Next ==
    \/ \E s \in Slots : Receive(s)
    \/ \E s \in Slots : ServeMux(s)
    \/ \E s \in Slots : greetingHandler(s)
    \/ \E s \in Slots : healthHandler(s)
    \/ \E s \in Slots : corsProxy(s)
    \/ \E s \in Slots : StackOverflow(s)
    \/ \E s \in Slots : chatDecode(s)
    \/ \E s \in Slots : chatScan(s)
    \/ \E s \in Slots : chatRespond(s)
    \/ \E s \in Slots : chatWrite(s)
    \/ \E s \in Slots : Complete(s)

\* One request at a time, every request of SingleRequests
Spec == Init /\ [][Next]_vars

InitConcurrent ==
    /\ load = "concurrent"
    /\ ServerIdle
    /\ FnIdle

\* NumSlots requests in flight, their handlers' steps interleaved
SpecConcurrent == InitConcurrent /\ [][Next]_vars

\* ------------------------------------------------- text-function actions
FnClassify ==
    /\ fpc = "input"
    /\ intent' = Classify(utterance)
    /\ fpc' = "classified"
    /\ UNCHANGED <<utterance, tableName, text>>
    /\ UNCHANGED serverVars

FnExtract ==
    /\ fpc = "classified"
    /\ tableName' = extractTableName(utterance)
    /\ fpc' = "extracted"
    /\ UNCHANGED <<utterance, intent, text>>
    /\ UNCHANGED serverVars

FnGenerate ==
    /\ fpc = "extracted"
    /\ text' = generateTableCacheResponse(tableName)
    /\ fpc' = "generated"
    /\ UNCHANGED <<utterance, intent, tableName>>
    /\ UNCHANGED serverVars

InitFn ==
    /\ load = "none"
    /\ ServerIdle
    /\ utterance \in Utterances
    /\ fpc = "input"
    /\ intent = ""
    /\ tableName = <<>>
    /\ text = NoText

NextFn == FnClassify \/ FnExtract \/ FnGenerate

\* The text functions applied to every utterance of Utterances
SpecFn == InitFn /\ [][NextFn]_vars

\* The response a request gets when its handler runs from start to end with
\* no other request in the server (a non-OPTIONS /cors-proxy request gets none)
ServeAlone(r) ==
    LET h == HandlerOf(r.path)
    IN  IF h = "greeting"
        THEN IF r.method # "GET"
             THEN HttpError(EmptyResponse, "Method not allowed", 405)
             ELSE WriteJSON(EmptyResponse, GreetingJSON)
        ELSE IF h = "health" THEN WriteJSON(EmptyResponse, HealthJSON)
        ELSE IF h = "cors" THEN Response(200, CorsHeaders({}), <<>>)
        ELSE IF r.method # "POST"
             THEN HttpError(EmptyResponse, "Method not allowed", 405)
        ELSE IF ~Decode(r.body).ok
             THEN HttpError(EmptyResponse, "Invalid JSON", 400)
        ELSE WriteSSE(EmptyResponse,
                      ResponseContent(LastUserMessage(Decode(r.body).messages)))

\* ------------------------------------------------------------------ claims
IsChatPost(s) ==
    /\ req[s].path = "/v1/chat/completions"
    /\ req[s].method = "POST"

\* The request of slot s is a chat request whose body was decoded
Accepted(s) ==
    /\ IsChatPost(s)
    /\ req[s].body.first \in {"object", "null"}

InPipeline(s) == pc[s] \in {"scan", "respond", "write"}

SSEChunks(s) == SelectSeq(resp[s].body, LAMBDA c : c.kind = "sse")

UserIndexes(msgs) == {i \in 1..Len(msgs) : msgs[i].role = "user"}

HelpFrame ==
    [kind |-> "sse", text |-> "data: ",
     choices |-> << [index |-> 0,
                     delta |-> [role |-> "assistant", content |-> getHelpMessage],
                     finish_reason |-> "stop"] >>,
     tail |-> "\n\n"]

\* C1: for every chat request whose body parses, the utterance the pipeline
\* works on is the content of the last message whose role is "user",
\* whatever messages come before or after it; with no user message it is the
\* empty string and the response is the help text with status 200.
C1_LastUserMessage ==
    \A s \in Slots :
        (Accepted(s) /\ pc[s] \in {"respond", "write", "done"}) =>
            LET msgs  == req[s].body.messages
                users == UserIndexes(msgs)
            IN  /\ userMessage[s] =
                       IF users = {} THEN <<>> ELSE msgs[MaxOf(users)].content
                /\ (users = {} /\ pc[s] = "done") =>
                       /\ resp[s].status = 200
                       /\ resp[s].body = << HelpFrame >>

C1_Witness ==
    \E s \in Slots :
        /\ Accepted(s) /\ pc[s] = "done"
        /\ Len(req[s].body.messages) = 2
        /\ req[s].body.messages[1].role = "user"
        /\ req[s].body.messages[2].role = "user"
        /\ req[s].body.messages[1].content # req[s].body.messages[2].content
        /\ userMessage[s] = req[s].body.messages[2].content

GreetingKeywords == {W_hi, W_hello, W_hey, W_greeting, W_greet}
CachePhrases == {P_table_cache, P_cache_of, P_cache_for}

\* C2: classification is a total three-way decision with a fixed priority:
\* a lower-cased, trimmed utterance that contains a greeting keyword is a
\* Greeting even when it contains a cache phrase; else one that contains a
\* cache phrase is a CacheQuery; every other one, the empty one included, is
\* Unknown.
C2_ClassifyPriority ==
    fpc \in {"classified", "extracted", "generated"} =>
        LET n == ToLower(TrimSpace(utterance))
            g == \E w \in GreetingKeywords : Contains(n, w)
            c == \E q \in CachePhrases : Contains(n, q)
        IN  /\ g => intent = "Greeting"
            /\ (~g /\ c) => intent = "CacheQuery"
            /\ (~g /\ ~c) => intent = "Unknown"

C2_Witness ==
    /\ fpc = "classified"
    /\ intent = "Greeting"
    /\ Contains(ToLower(utterance), P_cache_of)

\* The "of" pattern on the utterance's own tokens: the places of a token that
\* is "of" in any casing and has a token after it
OfIndexes(toks) == {i \in 1..Len(toks) : ToLower(toks[i]) = W_of /\ i < Len(toks)}

\* The tokens that are longer than 2 and fully upper-case as typed
UpperIndexes(toks) ==
    {i \in 1..Len(toks) : Len(toks[i]) > 2 /\ ToUpper(toks[i]) = toks[i]}

\* C3: when no "of" token of a cache query is followed by another token,
\* extractTableName returns the first original-cased token longer than 2 that is fully
\* upper-case (extract("TBCD table cache") = "TBCD").
C3_UppercaseFallback ==
    fpc \in {"extracted", "generated"} =>
        LET toks == Fields(utterance)
        IN  (/\ intent = "CacheQuery"
             /\ OfIndexes(toks) = {}
             /\ UpperIndexes(toks) # {}) =>
                tableName = toks[MinOf(UpperIndexes(toks))]

\* C4: extractTableName is total and the first "of" wins: when some token is
\* "of" (in any casing) and has a token after it, the result is the
\* upper-cased token after the leftmost such "of"; when there is neither such
\* an "of" nor a fully upper-case token longer than 2, the result is "UNKNOWN".
C4_FirstOfWins ==
    fpc \in {"extracted", "generated"} =>
        LET toks == Fields(utterance)
        IN  /\ OfIndexes(toks) # {} =>
                   tableName = ToUpper(toks[MinOf(OfIndexes(toks)) + 1])
            /\ (OfIndexes(toks) = {} /\ UpperIndexes(toks) = {}) =>
                   tableName = UNKNOWN
            /\ tableName \in Seq({ToUpperCh(ch) : ch \in {utterance[i] : i \in 1..Len(utterance)}}
                                 \cup {UNKNOWN[i] : i \in 1..Len(UNKNOWN)})

C4_Witness ==
    /\ fpc = "extracted"
    /\ Cardinality(OfIndexes(Fields(utterance))) = 2
    /\ tableName = <<"O", "F">>

\* A body that is valid JSON and has the shape of a chat request
WellFormed(body) == body.first = "object" /\ ~body.trailing

\* C5: a POST to /v1/chat/completions whose body is not valid JSON, or does
\* not have the request's shape, is answered 400 and never enters the
\* pipeline: no SSE header is set and no frame is written.
C5_InvalidBodyRejected ==
    \A s \in Slots :
        (IsChatPost(s) /\ ~WellFormed(req[s].body)) =>
            /\ ~InPipeline(s)
            /\ pc[s] = "done" =>
                   /\ resp[s].status = 400
                   /\ SSEChunks(s) = <<>>
                   /\ <<"Content-Type", "text/event-stream">> \notin resp[s].headers

AllowedMethod(path) == IF HandlerOf(path) = "chat" THEN "POST" ELSE "GET"

\* C6: every fixed-method route answers any other method with 405 before
\* producing its normal body: non-GET on /greeting and /, non-POST on
\* /v1/chat/completions, non-GET on /health; the pipeline is not entered.
C6_WrongMethodIs405 ==
    \A s \in Slots :
        (/\ req[s].path \in {"/", "/greeting", "/v1/chat/completions", "/health"}
         /\ req[s].method # AllowedMethod(req[s].path)) =>
            /\ ~InPipeline(s)
            /\ pc[s] = "done" => resp[s].status = 405

\* C7: for every accepted chat request exactly one SSE frame is ever written:
\* "data: ", a payload with one choice (index 0, role assistant, the composed
\* text, finish reason stop), a blank line; nothing follows it, no [DONE].
C7_OneFrame ==
    \A s \in Slots :
        /\ Len(SSEChunks(s)) <= 1
        /\ (Accepted(s) /\ pc[s] = "done") =>
               resp[s].body =
                   << [kind |-> "sse", text |-> "data: ",
                       choices |-> << [index |-> 0,
                                       delta |-> [role |-> "assistant",
                                                  content |-> responseContent[s]],
                                       finish_reason |-> "stop"] >>,
                       tail |-> "\n\n"] >>

C7_Witness ==
    \E s \in Slots :
        /\ Accepted(s) /\ pc[s] = "done"
        /\ Len(resp[s].body) = 1
        /\ resp[s].body[1].choices[1].delta.content = getGreetingMessage

\* C8: the pipeline has no hidden state: a request that completes while
\* others are handled concurrently gets the status, headers and body it gets
\* when handled alone, and equal requests get equal responses.
C8_NoInterference ==
    \A s \in Slots :
        pc[s] = "done" =>
            /\ resp[s] = ServeAlone(req[s])
            /\ \A t \in Slots :
                   (pc[t] = "done" /\ req[t] = req[s]) => resp[t] = resp[s]

C8_Witness ==
    \E s, t \in Slots :
        /\ s # t
        /\ Accepted(s) /\ Accepted(t)
        /\ pc[s] = "done" /\ pc[t] = "done"
        /\ req[s] # req[t]
        /\ resp[s] # resp[t]

FoundText(name, lines) ==
    [head |-> "Table Cache Information for", name |-> name, lines |-> lines]

NotFoundText(name) ==
    [head |-> "Table Cache Information for", name |-> name,
     lines |-> <<"- Status: Table not found in cache system",
                 "- Suggestion: Please check if the table name is correct",
                 "- Available cached tables: TBCD, USERS, ORDERS",
                 "- Contact admin if you need to add this table to cache monitoring">>]

\* C9: for a CacheQuery utterance the composed text is the found listing
\* exactly when the extracted table name is TBCD, USERS or ORDERS, with that
\* table's caches in order; every other name, "UNKNOWN" included, gets the
\* not-found text naming it and listing the known tables; the status is 200.
C9_Lookup ==
    \A s \in Slots :
        (/\ Accepted(s) /\ pc[s] = "done"
         /\ Classify(userMessage[s]) = "CacheQuery") =>
            LET t == extractTableName(userMessage[s])
                content == resp[s].body[1].choices[1].delta.content
            IN  /\ resp[s].status = 200
                /\ Len(resp[s].body) = 1
                /\ t = TBCD =>
                       content = FoundText(TBCD, <<"- MENUCACHE", "- APICACHE", "- TRANSCACHE">>)
                /\ t = USERS =>
                       content = FoundText(USERS, <<"- USERCACHE", "- REGISTRYCACHE">>)
                /\ t = ORDERS =>
                       content = FoundText(ORDERS, <<"- ORDERCACHE">>)
                /\ t \notin {TBCD, USERS, ORDERS} => content = NotFoundText(t)

C9_Witness ==
    \E s \in Slots :
        /\ Accepted(s) /\ pc[s] = "done"
        /\ Classify(userMessage[s]) = "CacheQuery"
        /\ extractTableName(userMessage[s]) = ORDERS
        /\ resp[s].body[1].choices[1].delta.content.lines = <<"- ORDERCACHE">>

\* C10: a request to /cors-proxy is dispatched through the route table at
\* most once, so the pass-through handler is entered once per request and
\* the request completes.
C10_CorsDispatchedOnce ==
    /\ ~crashed
    /\ \A s \in Slots : corsDepth[s] <= 1
====
